---------------------------- MODULE Spec2Model ----------------------------
(***************************************************************************)
(* Cinema ticket booking and management system                            *)
(* (src/cinema_management_system.py).                                      *)
(*                                                                         *)
(* The program keeps every entity in a comma-separated text file whose     *)
(* first line is a header (written back unchanged by every rewrite and     *)
(* skipped by every read).  The program looks at a file only through       *)
(* _read_rows, so a file is modelled by the rows _read_rows returns from   *)
(* it: every write joins its fields with "," into lines and the rows kept  *)
(* are those lines split on "," again.  A string is a sequence of          *)
(* one-character strings, so that a field holding the separator comes back *)
(* as two fields.                                                          *)
(*                                                                         *)
(* Spec     : one interactive session of the manager's movie, auditorium   *)
(*            and show entries, the clerk's booking entries and the        *)
(*            customer's cancel/modify entry; every handler runs to        *)
(*            completion (one action per handler).                         *)
(* SpecIO   : the session of a clerk whose storage medium may refuse the   *)
(*            writes of book_ticket.                                       *)
(* SpecReceipt : the session of a clerk whose receipt files may be refused.*)
(* SpecConc : two clerk terminals running _book_ticket_common against the  *)
(*            same files; one step per file access or prompt.              *)
(* SpecConcCancel : two clerk terminals running _cancel_or_modify_common   *)
(*            against the same files.                                      *)
(* SpecIds  : _next_id_from applied to a store of any three rows.          *)
(* SpecLedger : the clerk booking and cancelling, ids up to MaxLedgerId.   *)
(* SpecCat  : the manager's session on movies, auditoriums and shows.      *)
(* SpecDesk : bookings made by the clerk and by the customer.              *)
(* SpecFrame : the clerk's booking entries on a schedule of two shows.     *)
(*                                                                         *)
(* Every prompt strips its input; the inputs of the model hold no blanks.  *)
(* An exception no handler catches (int() of a field that is no number)    *)
(* ends the handler where it is raised; it is recorded as the outcome      *)
(* "ValueError".                                                           *)
(***************************************************************************)
EXTENDS Integers, Sequences, FiniteSets, TLC

VARIABLES
    movFile,     \* _read_rows(MOV_FILE)
    audFile,     \* _read_rows(AUD_FILE)
    showFile,    \* _read_rows(SHOW_FILE)
    bookFile,    \* _read_rows(BOOK_FILE)
    seatTotal,   \* history: show id -> seat total given to add_show
    last,        \* history: the handler that ran last, its inputs, its outcome
    pc,          \* SpecConc: each terminal's position in _book_ticket_common
    loc          \* SpecConc: each terminal's local variables

files == <<movFile, audFile, showFile, bookFile>>
vars == <<movFile, audFile, showFile, bookFile, seatTotal, last, pc, loc>>

---------------------------------------------------------------------------
(* Bounds of the model.                                                    *)

MaxMovies == 1
MaxAuds == 1
\* shows on the schedule while a booking exists
MaxShows == 1
\* shows on the schedule while no booking exists
MaxSchedule == 2
MaxBookings == 2
\* the largest id _next_id_from hands out
MaxId == 2
\* rows of a store handed to _next_id_from on its own
MaxStoreLen == 3
\* largest booking id of the clerk's ledger session
MaxLedgerId == 3
\* seats a show may hold in the runs of SpecConcCancel
MaxSeats == 3

---------------------------------------------------------------------------
(* Python strings and conversions.                                         *)

Digits == <<"0", "1", "2", "3", "4", "5", "6", "7", "8", "9">>

DigitMap == [c \in {Digits[i] : i \in 1..10} |-> (CHOOSE i \in 1..10 : Digits[i] = c) - 1]

IsDigit(c) == c \in DOMAIN DigitMap

DigitVal(c) == DigitMap[c]

UpperCase == <<"A","B","C","D","E","F","G","H","I","J","K","L","M",
               "N","O","P","Q","R","S","T","U","V","W","X","Y","Z">>

LowerCase == <<"a","b","c","d","e","f","g","h","i","j","k","l","m",
               "n","o","p","q","r","s","t","u","v","w","x","y","z">>

\* str.lower(), on the ASCII letters
LowerMap == [c \in {UpperCase[i] : i \in 1..26} |-> LowerCase[CHOOSE i \in 1..26 : UpperCase[i] = c]]

LowerChar(c) == IF c \in DOMAIN LowerMap THEN LowerMap[c] ELSE c

Lower(s) == [i \in 1..Len(s) |-> LowerChar(s[i])]

\* str.upper(), on the ASCII letters
UpperMap == [c \in {LowerCase[i] : i \in 1..26} |-> UpperCase[CHOOSE i \in 1..26 : LowerCase[i] = c]]

UpperChar(c) == IF c \in DOMAIN UpperMap THEN UpperMap[c] ELSE c

Upper(s) == [i \in 1..Len(s) |-> UpperChar(s[i])]

\* str.strip(), on blanks
RECURSIVE LStrip(_)
LStrip(s) == IF Len(s) > 0 /\ s[1] = " " THEN LStrip(Tail(s)) ELSE s

RECURSIVE RStrip(_)
RStrip(s) ==
    IF Len(s) > 0 /\ s[Len(s)] = " " THEN RStrip(SubSeq(s, 1, Len(s) - 1)) ELSE s

Strip(s) == RStrip(LStrip(s))

\* str.isdigit(), on ASCII
IsDigitStr(s) == Len(s) > 0 /\ \A i \in 1..Len(s) : IsDigit(s[i])

RECURSIVE DigitsVal(_)
DigitsVal(s) ==
    IF Len(s) = 0 THEN 0
    ELSE 10 * DigitsVal(SubSeq(s, 1, Len(s) - 1)) + DigitVal(s[Len(s)])

\* int(s) succeeds: blanks stripped, an optional sign, then digits
IntOk(s) ==
    LET t == Strip(s) IN
    \/ IsDigitStr(t)
    \/ Len(t) > 1 /\ t[1] \in {"-", "+"} /\ IsDigitStr(Tail(t))

\* int(s), for IntOk(s)
PyInt(s) ==
    LET t == Strip(s) IN
    IF t[1] = "-" THEN 0 - DigitsVal(Tail(t))
    ELSE IF t[1] = "+" THEN DigitsVal(Tail(t))
    ELSE DigitsVal(t)

RECURSIVE NatStr(_)
NatStr(n) ==
    IF n < 10 THEN <<Digits[n + 1]>>
    ELSE NatStr(n \div 10) \o <<Digits[(n % 10) + 1]>>

\* str(n) of an integer
PyStr(n) == IF n < 0 THEN <<"-">> \o NatStr(0 - n) ELSE NatStr(n)

\* float(s) succeeds: an optional sign, digits with at most one point
\* (exponents, inf and nan are not among the inputs of the model)
FloatOk(s) ==
    LET t == Strip(s)
        u == IF Len(t) > 0 /\ t[1] \in {"-", "+"} THEN Tail(t) ELSE t
        dots == {i \in 1..Len(u) : u[i] = "."}
    IN  /\ Cardinality(dots) <= 1
        /\ \E i \in 1..Len(u) : IsDigit(u[i])
        /\ \A i \in 1..Len(u) : IsDigit(u[i]) \/ u[i] = "."

\* line.split(",")
RECURSIVE Split(_)
Split(s) ==
    LET commas == {i \in 1..Len(s) : s[i] = ","} IN
    IF commas = {} THEN <<s>>
    ELSE LET c == CHOOSE i \in commas : \A j \in commas : i <= j
         IN  <<SubSeq(s, 1, c - 1)>> \o Split(SubSeq(s, c + 1, Len(s)))

\* ",".join(fields)
RECURSIVE Join(_)
Join(r) ==
    IF Len(r) = 0 THEN <<>>
    ELSE IF Len(r) = 1 THEN r[1]
    ELSE r[1] \o <<",">> \o Join(Tail(r))

\* r[i] of a 0-indexed Python list, as field i + 1 of the row
Fld(r, i) == r[i + 1]

---------------------------------------------------------------------------
(* CSV helpers.                                                            *)

\* _read_rows, of the data lines of a file: every non-blank line, split on ","
ReadRows(lines) ==
    LET kept == SelectSeq(lines, LAMBDA ln : Strip(ln) # <<>>)
    IN  [i \in 1..Len(kept) |-> Split(kept[i])]

\* WriteAll_Reversed writes the rows last to first.
WriteAll_Reversed(rows) ==
    ReadRows([i \in 1..Len(rows) |-> Join(rows[Len(rows) + 1 - i])])

\* _write_all(path, header, rows), as the rows the file then holds
WriteAll(rows) == ReadRows([i \in 1..Len(rows) |-> Join(rows[i])])

\* _append_line(path, line) to a file holding `file`, as the rows it then holds
AppendLine(file, line) == file \o ReadRows(<<line>>)

\* the id of the last row, as if the rows were in ascending order of id
MaxIdOf_LastRow(rows) ==
    IF Len(rows) > 0 /\ IntOk(Fld(rows[Len(rows)], 0))
    THEN PyInt(Fld(rows[Len(rows)], 0)) ELSE 0

RECURSIVE MaxIdOf(_)
MaxIdOf(rows) ==
    IF Len(rows) = 0 THEN 0
    ELSE LET m == MaxIdOf(Tail(rows))
             f == Fld(rows[1], 0)
         IN  IF IntOk(f) /\ PyInt(f) > m THEN PyInt(f) ELSE m

\* one more than the number of rows, instead of one more than the largest id
NextIdFrom_RowCount(file) == PyStr(Len(file) + 1)

\* _next_id_from
NextIdFrom(file) == PyStr(MaxIdOf(file) + 1)

\* _is_nonempty_no_comma
IsNonemptyNoComma(s) ==
    /\ Strip(s) # <<>>
    /\ \A i \in 1..Len(s) : s[i] # ","

\* _ensure_positive_int
EnsurePositiveInt(s) == IsDigitStr(s) /\ PyInt(s) > 0

\* index (from 1) of the first row whose field 0 is key; 0 when there is none
FindFirst(rows, key) ==
    IF \E i \in 1..Len(rows) : Fld(rows[i], 0) = key
    THEN CHOOSE i \in 1..Len(rows) :
             /\ Fld(rows[i], 0) = key
             /\ \A j \in 1..(i - 1) : Fld(rows[j], 0) # key
    ELSE 0

\* RemoveAt_Last drops the last row whatever i is (list.pop() for list.pop(i)).
RemoveAt_Last(rows, i) == SubSeq(rows, 1, Len(rows) - 1)

\* rows with row i dropped (list.pop(i))
RemoveAt(rows, i) ==
    [k \in 1..(Len(rows) - 1) |-> IF k < i THEN rows[k] ELSE rows[k + 1]]

\* load_aud_map keys
AudIds == {Fld(audFile[i], 0) : i \in {k \in 1..Len(audFile) : Len(audFile[k]) >= 2}}


---------------------------------------------------------------------------
(* Date and time validation.                                               *)

\* DATE_RE: ^\d{4}-\d{2}-\d{2}$
DateRe(d) ==
    /\ Len(d) = 10
    /\ d[5] = "-" /\ d[8] = "-"
    /\ \A i \in {1, 2, 3, 4, 6, 7, 9, 10} : IsDigit(d[i])

\* TIME_RE: ^\d{2}:\d{2}$
TimeRe(t) ==
    /\ Len(t) = 5
    /\ t[3] = ":"
    /\ \A i \in {1, 2, 4, 5} : IsDigit(t[i])

IsLeap(y) == (y % 4 = 0 /\ y % 100 # 0) \/ y % 400 = 0

DaysIn(y, m) ==
    IF m = 2 THEN (IF IsLeap(y) THEN 29 ELSE 28)
    ELSE IF m \in {4, 6, 9, 11} THEN 30 ELSE 31

\* datetime.strptime(date + " " + time, "%Y-%m-%d %H:%M") succeeds
StrptimeOk(d, t) ==
    LET y == DigitsVal(SubSeq(d, 1, 4))
        m == DigitsVal(SubSeq(d, 6, 7))
        dd == DigitsVal(SubSeq(d, 9, 10))
        hh == DigitsVal(SubSeq(t, 1, 2))
        mi == DigitsVal(SubSeq(t, 4, 5))
    IN  /\ y >= 1
        /\ m \in 1..12
        /\ dd >= 1 /\ dd <= DaysIn(y, m)
        /\ hh <= 23
        /\ mi <= 59

\* _validate_date_time
ValidateDateTime(d, t) == DateRe(d) /\ TimeRe(t) /\ StrptimeOk(d, t)

---------------------------------------------------------------------------
(* Literals of the program and the inputs the model types at its prompts.  *)

ACTIVE == <<"A","c","t","i","v","e">>
INACTIVE == <<"I","n","a","c","t","i","v","e">>
PAID == <<"P","A","I","D">>

Date1 == <<"2","0","2","5","-","0","1","-","0","1">>
BadDate == <<"2","0","2","5","-","0","2","-","3","0">>
Time1 == <<"1","0",":","0","0">>
Time2 == <<"1","2",":","3","0">>
Aud1 == <<"A","1">>
\* an auditorium id that is no auditorium and carries the separator
AudInj == Aud1 \o <<",">> \o Date1 \o <<",">> \o Time1

MovieTitles == {<<"T">>}
MovieStatuses == {ACTIVE, INACTIVE}
AudInputs == {Aud1}
ShowIdInputs == {<<"1">>, <<"2">>}
BookShowIds == {<<"1">>}
MovieIdInputs == {<<"1">>}
AddShowAuds == {Aud1}
UpdShowAuds == {Aud1, AudInj}
DateInputs == {Date1, BadDate}
TimeInputs == {Time1, Time2}
AddShowSeats == {<<"2">>, <<"-","1">>}
UpdShowSeats == {<<"2">>}
PriceInputs == {<<"9">>}
ClerkNames == {<<"b","o","b">>, <<"a",",","b">>}
CustomerNames == {<<"B","o","b">>}
SeatInputs == {<<"1">>, <<"2">>}
PayInputs == {<<"1">>, <<"3">>}
BookingIdInputs == {<<"1">>, <<"2">>}
ChoiceInputs == {<<"c">>, <<"m">>, <<"x">>}
NewSeatInputs == {<<"1">>, <<"2">>}

---------------------------------------------------------------------------
(* History of the last handler.                                            *)

Op(name, key, who, num, sel, date, time, out) ==
    [op |-> name, key |-> key, who |-> who, num |-> num, sel |-> sel,
     date |-> date, time |-> time, out |-> out]

NoOwner == <<"-">>

Init ==
    /\ movFile = <<>>
    /\ audFile = <<>>
    /\ showFile = <<>>
    /\ bookFile = <<>>
    /\ seatTotal = <<>>
    /\ last = Op("start", <<>>, <<>>, <<>>, <<>>, <<>>, <<>>, "")
    /\ pc = [p \in {1, 2} |-> "idle"]
    /\ loc = [p \in {1, 2} |-> <<>>]

---------------------------------------------------------------------------
(* Cinema manager handlers, each run to completion.                        *)

\* what a handler that returns before its first write leaves behind
Returns(rec) ==
    /\ last' = rec
    /\ UNCHANGED <<movFile, audFile, showFile, bookFile, seatTotal, pc, loc>>

RowsOf(file) == {file[i] : i \in 1..Len(file)}

\* add_movie
AddMovie(t, d, st) ==
    LET rec(out) == Op("add_movie", <<>>, t, d, st, <<>>, <<>>, out) IN
    IF t = <<>> \/ ~IsDigitStr(d) \/ st \notin {ACTIVE, INACTIVE}
    THEN Returns(rec("Invalid movie data."))
    ELSE LET mid == NextIdFrom(movFile) IN
         /\ movFile' = AppendLine(movFile, Join(<<mid, t, <<"P","G">>, d, <<"E","N">>, st>>))
         /\ last' = rec("Movie added.")
         /\ UNCHANGED <<audFile, showFile, bookFile, seatTotal, pc, loc>>

\* add_auditorium
AddAuditorium(aud_id, name) ==
    LET rec(out) == Op("add_auditorium", aud_id, name, <<>>, <<>>, <<>>, <<>>, out)
        rows == audFile
    IN  IF ~IsNonemptyNoComma(aud_id) \/ ~IsNonemptyNoComma(name)
        THEN Returns(rec("Invalid auditorium data."))
        ELSE IF \E i \in 1..Len(rows) : Fld(rows[i], 0) = aud_id
        THEN Returns(rec("Auditorium ID exists."))
        ELSE /\ audFile' = WriteAll(Append(rows, <<aud_id, name>>))
             /\ last' = rec("Auditorium added.")
             /\ UNCHANGED <<movFile, showFile, bookFile, seatTotal, pc, loc>>

\* upd_movie; the new fields are asked for once the movie is found
UpdMovie(mid, t, d, st) ==
    LET rec(out) == Op("upd_movie", mid, t, d, st, <<>>, <<>>, out)
        rows == movFile
        idx == FindFirst(rows, mid)
    IN  IF idx = 0
        THEN Returns(Op("upd_movie", mid, <<>>, <<>>, <<>>, <<>>, <<>>, "Not found."))
        ELSE IF t = <<>> \/ ~IsDigitStr(d) \/ st \notin {ACTIVE, INACTIVE}
        THEN Returns(rec("Invalid."))
        ELSE /\ movFile' = WriteAll([rows EXCEPT
                    ![idx] = <<mid, t, <<"P","G">>, d, <<"E","N">>, st>>])
             /\ last' = rec("Updated.")
             /\ UNCHANGED <<audFile, showFile, bookFile, seatTotal, pc, loc>>

\* del_movie's loop over the shows: one of them references movie mid.
\* HasShowtimes_WrongField compares the show's own id instead.
HasShowtimes_WrongField(mid) == \E s \in RowsOf(showFile) : Fld(s, 0) = mid

HasShowtimes(mid) == \E s \in RowsOf(showFile) : Fld(s, 1) = mid

\* del_movie
DelMovie(mid) ==
    LET rec(out) == Op("del_movie", mid, <<>>, <<>>, <<>>, <<>>, <<>>, out)
        rows == movFile
        out == SelectSeq(rows, LAMBDA r : Fld(r, 0) # mid)
    IN  IF HasShowtimes(mid)
        THEN Returns(rec("Movie has showtimes; cannot delete."))
        ELSE IF Len(out) = Len(rows)
        THEN Returns(rec("Not found."))
        ELSE /\ movFile' = WriteAll(out)
             /\ last' = rec("Removed.")
             /\ UNCHANGED <<audFile, showFile, bookFile, seatTotal, pc, loc>>

\* the overlap test of add_show and upd_show, skipping row number skip
Overlaps(rows, skip, aid, date, time) ==
    \E k \in 1..Len(rows) :
        /\ k # skip
        /\ Fld(rows[k], 2) = aid
        /\ Fld(rows[k], 3) = date
        /\ Fld(rows[k], 4) = time

\* add_show
AddShow(mid, aid, date, time, seats, bp) ==
    LET rec(key, out) == Op("add_show", key, aid, seats, mid, date, time, out) IN
    IF ~IntOk(seats) \/ ~FloatOk(bp)
    THEN Returns(rec(<<>>, "Invalid seats or base price."))
    ELSE IF ~ValidateDateTime(date, time)
    THEN Returns(rec(<<>>, "Invalid date/time format."))
    ELSE IF ~\E m \in RowsOf(movFile) : Fld(m, 0) = mid /\ Fld(m, 5) = ACTIVE
    THEN Returns(rec(<<>>, "Movie invalid or inactive."))
    ELSE IF aid \notin AudIds
    THEN Returns(rec(<<>>, "Auditorium not found."))
    ELSE IF Overlaps(showFile, 0, aid, date, time)
    THEN Returns(rec(<<>>, "Showtime overlap in same auditorium."))
    ELSE LET sid == NextIdFrom(showFile) IN
         /\ showFile' = AppendLine(showFile,
                Join(<<sid, mid, aid, date, time, PyStr(PyInt(seats)), bp>>))
         /\ seatTotal' = (sid :> PyInt(seats)) @@ seatTotal
         /\ last' = rec(sid, "Show added.")
         /\ UNCHANGED <<movFile, audFile, bookFile, pc, loc>>

\* upd_show
UpdShow(sid, mid, aid, date, time, seats, bp) ==
    LET rec(out) == Op("upd_show", sid, aid, seats, mid, date, time, out)
        rows == showFile
        idx == FindFirst(rows, sid)
    IN  IF idx = 0
        THEN Returns(Op("upd_show", sid, <<>>, <<>>, <<>>, <<>>, <<>>, "Show not found."))
        ELSE IF ~IntOk(seats) \/ ~FloatOk(bp)
        THEN Returns(rec("Invalid numeric fields."))
        ELSE IF ~ValidateDateTime(date, time)
        THEN Returns(rec("Invalid date/time format."))
        ELSE IF Overlaps(rows, idx, aid, date, time)
        THEN Returns(rec("Overlap."))
        ELSE /\ showFile' = WriteAll([rows EXCEPT
                    ![idx] = <<sid, mid, aid, date, time, PyStr(PyInt(seats)), bp>>])
             /\ last' = rec("Show updated.")
             /\ UNCHANGED <<movFile, audFile, bookFile, seatTotal, pc, loc>>

\* del_show's loop over the bookings: one of them references show sid.
\* HasBookings_WrongField compares the booking's own id instead.
HasBookings_WrongField(sid) == \E b \in RowsOf(bookFile) : Fld(b, 0) = sid

HasBookings(sid) == \E b \in RowsOf(bookFile) : Fld(b, 2) = sid

\* del_show
DelShow(sid) ==
    LET rec(out) == Op("del_show", sid, <<>>, <<>>, <<>>, <<>>, <<>>, out)
        rows == showFile
        out == SelectSeq(rows, LAMBDA r : Fld(r, 0) # sid)
    IN  IF HasBookings(sid)
        THEN Returns(rec("Has bookings; cannot delete."))
        ELSE IF Len(out) = Len(rows)
        THEN Returns(rec("Not found."))
        ELSE /\ showFile' = WriteAll(out)
             /\ seatTotal' = [k \in DOMAIN seatTotal \ {sid} |-> seatTotal[k]]
             /\ last' = rec("Show removed.")
             /\ UNCHANGED <<movFile, audFile, bookFile, pc, loc>>

---------------------------------------------------------------------------
(* Ticketing handlers, each run to completion.                             *)

\* PaymentOk_Any takes every answer to the payment prompt for a payment.
PaymentOk_Any(pay) == TRUE

\* the payment section: 1 is cash, 2 is card, anything else ends the booking
PaymentOk(pay) == pay \in {<<"1">>, <<"2">>}

\* WithSeats_Unchanged leaves the seat count as it was.
WithSeats_Unchanged(rows, i, n) == rows

\* rows with field 5 (the seat count of a show row) of row i set to n
WithSeats(rows, i, n) == [rows EXCEPT ![i][6] = PyStr(n)]

\* _book_ticket_common, entered as handler `name`; the payment choice is
\* asked for (and recorded) only once the checks have passed.  wOk and aOk say whether
\* the medium accepts the rewrite of showtimes.csv and the append to
\* bookings.csv: _write_lines raises on a refused write, _append_line
\* catches the exception and returns False, which the caller does not read.
\* rOk says whether receipts/ takes the receipt file: generate_receipt is
\* called after both writes and nothing catches what its open() raises.
BookTicketCommon(name, sid, cname, nseats, pay, wOk, aOk, rOk) ==
    LET early(out) == Op(name, sid, cname, nseats, <<>>, <<>>, <<>>, out)
        rec(out) == Op(name, sid, cname, nseats, pay, <<>>, <<>>, out)
        shows == showFile
        idx == FindFirst(shows, sid)
    IN  IF ~EnsurePositiveInt(nseats)
        THEN Returns(early("Invalid seat number."))
        ELSE IF idx = 0
        THEN Returns(early("Show not found."))
        ELSE IF ~IntOk(Fld(shows[idx], 5))
        THEN Returns(early("ValueError"))
        ELSE IF PyInt(Fld(shows[idx], 5)) < PyInt(nseats)
        THEN Returns(early("Not enough seats available."))
        ELSE IF ~PaymentOk(pay)
        THEN Returns(rec("Invalid payment option. Booking cancelled."))
        ELSE IF ~wOk
        THEN Returns(rec("OSError"))
        ELSE LET bid == NextIdFrom(bookFile)
                 n == PyInt(nseats)
                 avail == PyInt(Fld(shows[idx], 5))
             IN  /\ showFile' = WriteAll(WithSeats(shows, idx, avail - n))
                 /\ bookFile' = IF aOk
                                THEN AppendLine(bookFile,
                                         Join(<<bid, cname, sid, PyStr(n), PAID>>))
                                ELSE bookFile
                 /\ last' = rec(IF rOk THEN "Booking successful."
                                 ELSE "OSError in generate_receipt")
                 /\ UNCHANGED <<movFile, audFile, seatTotal, pc, loc>>

\* the ownership test of _cancel_or_modify_common.
\* OwnerMatches_CaseSensitive drops the two lower() calls.
OwnerMatches_CaseSensitive(stored, owner_name) == stored = owner_name

OwnerMatches(stored, owner_name) == Lower(stored) = Lower(owner_name)

\* the capacity test of a modification by diff seats.
\* ModifyFits_SignSlip adds the difference instead of taking it away.
ModifyFits_SignSlip(avail, diff) == avail + diff >= 0

ModifyFits(avail, diff) == ~(avail - diff < 0)

\* _cancel_or_modify_common, entered as handler `name`; owned is FALSE for
\* owner_name=None.  The choice is asked for once the booking is found and
\* the caller allowed, the new seat count once the choice is M.
CancelOrModifyCommon(name, bid, owned, owner_name, choice_in, new_seats) ==
    LET choice == Upper(choice_in)
        who == IF owned THEN owner_name ELSE NoOwner
        early(out) == Op(name, bid, who, <<>>, <<>>, <<>>, <<>>, out)
        chosen(out) == Op(name, bid, who, <<>>, choice, <<>>, <<>>, out)
        rec(out) == Op(name, bid, who, new_seats, choice, <<>>, <<>>, out)
        books == bookFile
        shows == showFile
        bidx == FindFirst(books, bid)
    IN  IF bidx = 0
        THEN Returns(early("Booking not found."))
        ELSE IF owned /\ ~OwnerMatches(Fld(books[bidx], 1), owner_name)
        THEN Returns(early("You can only manage your own bookings."))
        ELSE LET sid == Fld(books[bidx], 2)
                 sidx == FindFirst(shows, sid)
             IN
             IF choice = <<"C">>
             THEN IF sidx # 0
                  THEN IF ~IntOk(Fld(shows[sidx], 5)) \/ ~IntOk(Fld(books[bidx], 3))
                       THEN Returns(chosen("ValueError"))
                       ELSE /\ showFile' = WriteAll(WithSeats(shows, sidx,
                                   PyInt(Fld(shows[sidx], 5)) + PyInt(Fld(books[bidx], 3))))
                            /\ bookFile' = WriteAll(RemoveAt(books, bidx))
                            /\ last' = chosen("Booking cancelled.")
                            /\ UNCHANGED <<movFile, audFile, seatTotal, pc, loc>>
                  ELSE /\ bookFile' = WriteAll(RemoveAt(books, bidx))
                       /\ last' = chosen("Booking cancelled.")
                       /\ UNCHANGED <<movFile, audFile, showFile, seatTotal, pc, loc>>
             ELSE IF choice = <<"M">>
             THEN IF ~EnsurePositiveInt(new_seats)
                  THEN Returns(rec("Invalid seats."))
                  ELSE IF ~IntOk(Fld(books[bidx], 3))
                  THEN Returns(rec("ValueError"))
                  ELSE IF sidx = 0
                  THEN Returns(rec("Related show not found."))
                  ELSE IF ~IntOk(Fld(shows[sidx], 5))
                  THEN Returns(rec("ValueError"))
                  ELSE LET diff == PyInt(new_seats) - PyInt(Fld(books[bidx], 3))
                           avail == PyInt(Fld(shows[sidx], 5))
                       IN  IF ~ModifyFits(avail, diff)
                           THEN Returns(rec("Not enough seats to modify."))
                           ELSE /\ showFile' = WriteAll(WithSeats(shows, sidx, avail - diff))
                                /\ bookFile' = WriteAll([books EXCEPT
                                       ![bidx][4] = PyStr(PyInt(new_seats))])
                                /\ last' = rec("Booking modified.")
                                /\ UNCHANGED <<movFile, audFile, seatTotal, pc, loc>>
             ELSE Returns(chosen("Invalid choice."))

---------------------------------------------------------------------------
(* One interactive session: the menu entries.  The stores are kept within  *)
(* the bounds of the model: an entry that would grow one past them is not  *)
(* taken.                                                                  *)

WithinBounds ==
    /\ Len(movFile') <= MaxMovies
    /\ Len(audFile') <= MaxAuds
    /\ \/ Len(showFile') <= MaxShows
       \/ Len(showFile') <= MaxSchedule /\ bookFile' = <<>>
    /\ Len(bookFile') <= MaxBookings
    /\ MaxIdOf(showFile') <= MaxId
    /\ MaxIdOf(bookFile') <= MaxId

add_movie ==
    /\ \E t \in MovieTitles, st \in MovieStatuses : AddMovie(t, <<"9","0">>, st)
    /\ WithinBounds

add_auditorium ==
    /\ \E a \in AudInputs : AddAuditorium(a, <<"H">>)
    /\ WithinBounds

add_show ==
    /\ \E mid \in MovieIdInputs, aid \in AddShowAuds, date \in DateInputs,
          time \in TimeInputs, seats \in AddShowSeats, bp \in PriceInputs :
           AddShow(mid, aid, date, time, seats, bp)
    /\ WithinBounds

upd_show ==
    \E sid \in ShowIdInputs, mid \in MovieIdInputs, aid \in UpdShowAuds,
       date \in {Date1}, time \in {Time1}, seats \in UpdShowSeats,
       bp \in PriceInputs :
        UpdShow(sid, mid, aid, date, time, seats, bp)

del_show == \E sid \in ShowIdInputs : DelShow(sid)

\* book_ticket: the clerk's entry, the customer name as typed
book_ticket ==
    /\ \E sid \in BookShowIds, cname \in ClerkNames, n \in SeatInputs,
          pay \in PayInputs :
           BookTicketCommon("book_ticket", sid, cname, n, pay, TRUE, TRUE, TRUE)
    /\ WithinBounds

\* cancel_or_modify_booking: the clerk's entry
cancel_or_modify_booking ==
    \E bid \in BookingIdInputs, c \in ChoiceInputs, ns \in NewSeatInputs :
        CancelOrModifyCommon("cancel_or_modify_booking", bid, FALSE, <<>>, c, ns)

\* customer_cancel_or_modify, reached through customer_menu's name check
customer_cancel_or_modify ==
    \E name \in CustomerNames, bid \in BookingIdInputs, c \in ChoiceInputs,
       ns \in NewSeatInputs :
        /\ IsNonemptyNoComma(name)
        /\ CancelOrModifyCommon("customer_cancel_or_modify", bid, TRUE, name, c, ns)

Next ==
    \/ add_movie
    \/ add_auditorium
    \/ add_show
    \/ upd_show
    \/ del_show
    \/ book_ticket
    \/ cancel_or_modify_booking
    \/ customer_cancel_or_modify

Spec == Init /\ [][Next]_vars

---------------------------------------------------------------------------
(* The storage medium may refuse a write.                                  *)

\* book_ticket when the rewrite of showtimes.csv or the append to
\* bookings.csv may be refused
book_ticket_io ==
    /\ \E sid \in BookShowIds, cname \in ClerkNames, n \in SeatInputs,
          pay \in PayInputs, wOk \in BOOLEAN, aOk \in BOOLEAN :
           BookTicketCommon("book_ticket", sid, cname, n, pay, wOk, aOk, TRUE)
    /\ WithinBounds

NextIO ==
    \/ add_movie
    \/ add_auditorium
    \/ add_show
    \/ book_ticket_io
    \/ cancel_or_modify_booking

SpecIO == Init /\ [][NextIO]_vars

---------------------------------------------------------------------------
(* The session of a clerk whose receipts directory may refuse the receipt  *)
(* file of a booking.                                                      *)

book_ticket_receipt ==
    /\ \E sid \in BookShowIds, cname \in ClerkNames, n \in SeatInputs,
          pay \in PayInputs, rOk \in BOOLEAN :
           BookTicketCommon("book_ticket", sid, cname, n, pay, TRUE, TRUE, rOk)
    /\ WithinBounds

NextReceipt ==
    \/ add_movie
    \/ add_auditorium
    \/ add_show
    \/ book_ticket_receipt

SpecReceipt == Init /\ [][NextReceipt]_vars

---------------------------------------------------------------------------
(* Two clerk terminals share the files.  Nothing in the program locks a    *)
(* file, so the file accesses of two _book_ticket_common calls interleave. *)

Terminals == {1, 2}

NoLocals == <<>>

ConcClerks == {<<"b", "o", "b">>}

InFlight == Cardinality({q \in Terminals : pc[q] # "idle"})

\* a return of terminal p's call
ConcReturns(p, rec) ==
    /\ last' = rec
    /\ pc' = [pc EXCEPT ![p] = "idle"]
    /\ loc' = [loc EXCEPT ![p] = NoLocals]
    /\ UNCHANGED <<files, seatTotal>>

\* terminal p: seat count check, read of showtimes.csv, availability check
BookStart(p, sid, cname, nseats) ==
    LET rec(out) == Op("book_ticket", sid, cname, nseats, <<>>, <<>>, <<>>, out)
        shows == showFile
        idx == FindFirst(shows, sid)
    IN  /\ pc[p] = "idle"
        /\ Len(bookFile) + InFlight < MaxBookings
        /\ IF ~EnsurePositiveInt(nseats)
           THEN ConcReturns(p, rec("Invalid seat number."))
           ELSE IF idx = 0
           THEN ConcReturns(p, rec("Show not found."))
           ELSE IF ~IntOk(Fld(shows[idx], 5))
           THEN ConcReturns(p, rec("ValueError"))
           ELSE IF PyInt(Fld(shows[idx], 5)) < PyInt(nseats)
           THEN ConcReturns(p, rec("Not enough seats available."))
           ELSE /\ pc' = [pc EXCEPT ![p] = "pay"]
                /\ loc' = [loc EXCEPT ![p] =
                              [sid |-> sid, cname |-> cname, arg |-> nseats,
                               nseats |-> PyInt(nseats), shows |-> shows,
                               idx |-> idx, avail |-> PyInt(Fld(shows[idx], 5)),
                               bid |-> <<>>]]
                /\ UNCHANGED <<files, seatTotal, last>>

\* terminal p: the payment prompt
BookPay(p, pay) ==
    LET l == loc[p]
        rec(out) == Op("book_ticket", l.sid, l.cname, l.arg, pay, <<>>, <<>>, out)
    IN  /\ pc[p] = "pay"
        /\ IF PaymentOk(pay)
           THEN /\ pc' = [pc EXCEPT ![p] = "write"]
                /\ UNCHANGED <<files, seatTotal, last, loc>>
           ELSE ConcReturns(p, rec("Invalid payment option. Booking cancelled."))

\* terminal p: the rewrite of showtimes.csv from the rows it read
BookWriteShows(p) ==
    LET l == loc[p] IN
    /\ pc[p] = "write"
    /\ showFile' = WriteAll(WithSeats(l.shows, l.idx, l.avail - l.nseats))
    /\ pc' = [pc EXCEPT ![p] = "nextid"]
    /\ UNCHANGED <<movFile, audFile, bookFile, seatTotal, last, loc>>

\* terminal p: the read of bookings.csv for the next id
BookNextId(p) ==
    /\ pc[p] = "nextid"
    /\ loc' = [loc EXCEPT ![p].bid = NextIdFrom(bookFile)]
    /\ pc' = [pc EXCEPT ![p] = "append"]
    /\ UNCHANGED <<files, seatTotal, last>>

\* terminal p: the append to bookings.csv, and the return
BookAppend(p) ==
    LET l == loc[p] IN
    /\ pc[p] = "append"
    /\ bookFile' = AppendLine(bookFile,
                       Join(<<l.bid, l.cname, l.sid, PyStr(l.nseats), PAID>>))
    /\ last' = Op("book_ticket", l.sid, l.cname, l.arg, <<>>, <<>>, <<>>,
                  "Booking successful.")
    /\ pc' = [pc EXCEPT ![p] = "idle"]
    /\ loc' = [loc EXCEPT ![p] = NoLocals]
    /\ UNCHANGED <<movFile, audFile, showFile, seatTotal>>

book_start ==
    \E p \in Terminals, sid \in BookShowIds, cname \in ConcClerks, n \in SeatInputs :
        BookStart(p, sid, cname, n)

book_pay == \E p \in Terminals, pay \in PayInputs : BookPay(p, pay)

book_write_shows == \E p \in Terminals : BookWriteShows(p)

book_next_id == \E p \in Terminals : BookNextId(p)

book_append == \E p \in Terminals : BookAppend(p)

NextConc ==
    \/ add_movie
    \/ add_auditorium
    \/ add_show
    \/ book_start
    \/ book_pay
    \/ book_write_shows
    \/ book_next_id
    \/ book_append

SpecConc == Init /\ [][NextConc]_vars

---------------------------------------------------------------------------
(* Two clerk terminals in _cancel_or_modify_common against the same files: *)
(* one step per file access or prompt.  Bookings are made while no call is *)
(* in flight.                                                              *)

\* the booking the two terminals name, and what they may answer
DuelBookingIds == {<<"1">>}
DuelChoices == {<<"c">>, <<"m">>}

\* add_show of the one show of the ledger
add_show_duel ==
    /\ \E mid \in MovieIdInputs, aid \in AddShowAuds, seats \in UpdShowSeats,
          bp \in PriceInputs :
           AddShow(mid, aid, Date1, Time1, seats, bp)
    /\ WithinBounds

\* book_ticket run to completion between the calls of the terminals
book_ticket_quiet ==
    /\ \A p \in Terminals : pc[p] = "idle"
    /\ \E sid \in BookShowIds, cname \in ConcClerks, n \in SeatInputs :
           BookTicketCommon("book_ticket", sid, cname, n, <<"1">>, TRUE, TRUE, TRUE)
    /\ WithinBounds

\* terminal p: the read of bookings.csv (books = _read_rows(BOOK_FILE))
CmReadBooks(p, bid) ==
    /\ pc[p] = "idle"
    /\ pc' = [pc EXCEPT ![p] = "readshows"]
    /\ loc' = [loc EXCEPT ![p] = [bid |-> bid, books |-> bookFile]]
    /\ UNCHANGED <<files, seatTotal, last>>

\* terminal p: the read of showtimes.csv and the search for the booking
CmReadShows(p) ==
    LET l == loc[p]
        bidx == FindFirst(l.books, l.bid)
    IN  /\ pc[p] = "readshows"
        /\ IF bidx = 0
           THEN ConcReturns(p, Op("cancel_or_modify_booking", l.bid, NoOwner,
                                  <<>>, <<>>, <<>>, <<>>, "Booking not found."))
           ELSE /\ pc' = [pc EXCEPT ![p] = "choice"]
                /\ loc' = [loc EXCEPT ![p] =
                              [bid |-> l.bid, books |-> l.books,
                               shows |-> showFile, bidx |-> bidx,
                               sidx |-> FindFirst(showFile, Fld(l.books[bidx], 2))]]
                /\ UNCHANGED <<files, seatTotal, last>>

\* terminal p: the prompt for M or C (and for the new seat count), and the
\* computation on the rows it read, up to the first write
CmChoice(p, choice_in, new_seats) ==
    LET l == loc[p]
        choice == Upper(choice_in)
        chosen(out) == Op("cancel_or_modify_booking", l.bid, NoOwner, <<>>,
                          choice, <<>>, <<>>, out)
        rec(out) == Op("cancel_or_modify_booking", l.bid, NoOwner, new_seats,
                       choice, <<>>, <<>>, out)
        goes(r, ns, nb, to) ==
            /\ pc' = [pc EXCEPT ![p] = to]
            /\ loc' = [loc EXCEPT ![p] =
                          [bid |-> l.bid, rec |-> r, newShows |-> ns,
                           newBooks |-> nb]]
            /\ UNCHANGED <<files, seatTotal, last>>
    IN  /\ pc[p] = "choice"
        /\ IF choice = <<"C">>
           THEN IF l.sidx # 0
                THEN IF \/ ~IntOk(Fld(l.shows[l.sidx], 5))
                        \/ ~IntOk(Fld(l.books[l.bidx], 3))
                     THEN ConcReturns(p, chosen("ValueError"))
                     ELSE goes(chosen("Booking cancelled."),
                               WithSeats(l.shows, l.sidx,
                                   PyInt(Fld(l.shows[l.sidx], 5))
                                   + PyInt(Fld(l.books[l.bidx], 3))),
                               RemoveAt(l.books, l.bidx), "writeshows")
                ELSE goes(chosen("Booking cancelled."), l.shows,
                          RemoveAt(l.books, l.bidx), "writebooks")
           ELSE IF choice = <<"M">>
           THEN IF ~EnsurePositiveInt(new_seats)
                THEN ConcReturns(p, rec("Invalid seats."))
                ELSE IF ~IntOk(Fld(l.books[l.bidx], 3))
                THEN ConcReturns(p, rec("ValueError"))
                ELSE IF l.sidx = 0
                THEN ConcReturns(p, rec("Related show not found."))
                ELSE IF ~IntOk(Fld(l.shows[l.sidx], 5))
                THEN ConcReturns(p, rec("ValueError"))
                ELSE LET diff == PyInt(new_seats) - PyInt(Fld(l.books[l.bidx], 3))
                         avail == PyInt(Fld(l.shows[l.sidx], 5))
                     IN  IF ~ModifyFits(avail, diff)
                         THEN ConcReturns(p, rec("Not enough seats to modify."))
                         ELSE goes(rec("Booking modified."),
                                   WithSeats(l.shows, l.sidx, avail - diff),
                                   [l.books EXCEPT
                                       ![l.bidx][4] = PyStr(PyInt(new_seats))],
                                   "writeshows")
           ELSE ConcReturns(p, chosen("Invalid choice."))

\* terminal p: _write_all(SHOW_FILE, ...) of the rows it read and changed
CmWriteShows(p) ==
    /\ pc[p] = "writeshows"
    /\ showFile' = WriteAll(loc[p].newShows)
    /\ pc' = [pc EXCEPT ![p] = "writebooks"]
    /\ UNCHANGED <<movFile, audFile, bookFile, seatTotal, last, loc>>

\* terminal p: _write_all(BOOK_FILE, ...) of the rows it read and changed,
\* and the return
CmWriteBooks(p) ==
    /\ pc[p] = "writebooks"
    /\ bookFile' = WriteAll(loc[p].newBooks)
    /\ last' = loc[p].rec
    /\ pc' = [pc EXCEPT ![p] = "idle"]
    /\ loc' = [loc EXCEPT ![p] = NoLocals]
    /\ UNCHANGED <<movFile, audFile, showFile, seatTotal>>

cm_read_books == \E p \in Terminals, bid \in DuelBookingIds : CmReadBooks(p, bid)

cm_read_shows == \E p \in Terminals : CmReadShows(p)

cm_choice ==
    \E p \in Terminals, c \in DuelChoices, ns \in NewSeatInputs :
        CmChoice(p, c, ns)

\* a rewrite that would take a seat count past MaxSeats is not taken
cm_write_shows ==
    /\ \E p \in Terminals : CmWriteShows(p)
    /\ \A i \in 1..Len(showFile') :
           IntOk(Fld(showFile'[i], 5)) => PyInt(Fld(showFile'[i], 5)) <= MaxSeats

cm_write_books == \E p \in Terminals : CmWriteBooks(p)

NextConcCancel ==
    \/ add_movie
    \/ add_auditorium
    \/ add_show_duel
    \/ book_ticket_quiet
    \/ cm_read_books
    \/ cm_read_shows
    \/ cm_choice
    \/ cm_write_shows
    \/ cm_write_books

SpecConcCancel == Init /\ [][NextConcCancel]_vars

---------------------------------------------------------------------------
(* _next_id_from on its own, on a store of any first fields.               *)

FirstFields == {<<"1">>, <<"2">>, <<"5">>, <<"x">>, <<"-","3">>}

Stores ==
    UNION {[1..n -> {<<f, <<"r">>>> : f \in FirstFields}] : n \in 0..MaxStoreLen}

InitIds ==
    /\ bookFile \in Stores
    /\ movFile = <<>>
    /\ audFile = <<>>
    /\ showFile = <<>>
    /\ seatTotal = <<>>
    /\ last = Op("start", <<>>, <<>>, <<>>, <<>>, <<>>, <<>>, "")
    /\ pc = [p \in {1, 2} |-> "idle"]
    /\ loc = [p \in {1, 2} |-> <<>>]

\* a call of _next_id_from(BOOK_FILE); the id returned is recorded as key
next_id ==
    /\ last.op = "start"
    /\ last' = Op("next_id", NextIdFrom(bookFile), <<>>, <<>>, <<>>, <<>>, <<>>, "")
    /\ UNCHANGED <<files, seatTotal, pc, loc>>

NextIds == next_id

SpecIds == InitIds /\ [][NextIds]_vars

---------------------------------------------------------------------------
(* The clerk's session on the booking ledger of one show: bookings made    *)
(* and cancelled up to booking id MaxLedgerId.                             *)

LedgerBookingIds == {<<"1">>, <<"2">>, <<"3">>}

LedgerBounds ==
    /\ Len(bookFile') <= MaxBookings
    /\ MaxIdOf(bookFile') <= MaxLedgerId

book_ticket_ledger ==
    /\ \E sid \in BookShowIds, cname \in ClerkNames, n \in SeatInputs,
          pay \in PayInputs :
           BookTicketCommon("book_ticket", sid, cname, n, pay, TRUE, TRUE, TRUE)
    /\ LedgerBounds

cancel_ledger ==
    \E bid \in LedgerBookingIds, c \in ChoiceInputs, ns \in NewSeatInputs :
        CancelOrModifyCommon("cancel_or_modify_booking", bid, FALSE, <<>>, c, ns)

NextLedger ==
    \/ add_movie
    \/ add_auditorium
    \/ add_show
    \/ book_ticket_ledger
    \/ cancel_ledger

SpecLedger == Init /\ [][NextLedger]_vars

---------------------------------------------------------------------------
(* The manager's session on the catalogue: movies, auditoriums and shows.  *)

CatMovieIds == {<<"1">>, <<"2">>}

CatAddSeats == {<<"2">>, <<"0">>}

CatUpdSeats == {<<"2">>, <<"3">>}

CatPrices == {<<"9">>, <<"-","5">>}

upd_movie ==
    \E mid \in CatMovieIds, t \in MovieTitles, st \in MovieStatuses :
        UpdMovie(mid, t, <<"9","0">>, st)

del_movie == \E mid \in CatMovieIds : DelMovie(mid)

\* add_show, with seat totals and prices of either sign
add_show_cat ==
    /\ \E mid \in MovieIdInputs, aid \in AddShowAuds, time \in TimeInputs,
          seats \in CatAddSeats, bp \in CatPrices :
           AddShow(mid, aid, Date1, time, seats, bp)
    /\ WithinBounds

\* upd_show, with movie ids and auditorium ids that are not on file
upd_show_cat ==
    \E sid \in ShowIdInputs, mid \in CatMovieIds, aid \in UpdShowAuds,
       seats \in CatUpdSeats, bp \in PriceInputs :
        UpdShow(sid, mid, aid, Date1, Time1, seats, bp)

NextCat ==
    \/ add_movie
    \/ upd_movie
    \/ del_movie
    \/ add_auditorium
    \/ add_show_cat
    \/ upd_show_cat
    \/ del_show

SpecCat == Init /\ [][NextCat]_vars

---------------------------------------------------------------------------
(* The booking desk: the clerk's entry and the customer's self-service     *)
(* entry to _book_ticket_common.                                           *)

DeskNames == {<<"b","o","b">>, <<"a",",","b">>, <<>>}

\* book_ticket with any of the names a clerk may type
book_ticket_desk ==
    /\ \E sid \in BookShowIds, cname \in DeskNames, n \in SeatInputs,
          pay \in PayInputs :
           BookTicketCommon("book_ticket", sid, cname, n, pay, TRUE, TRUE, TRUE)
    /\ WithinBounds

\* customer_menu asks for the name and returns on a name that is empty or
\* holds a comma; entry 5 then calls customer_book_ticket(name)
customer_book_ticket ==
    /\ \E name \in DeskNames, sid \in BookShowIds, n \in SeatInputs,
          pay \in PayInputs :
           IF ~IsNonemptyNoComma(name)
           THEN Returns(Op("customer_menu", <<>>, name, <<>>, <<>>, <<>>, <<>>,
                           "Invalid name."))
           ELSE BookTicketCommon("customer_book_ticket", sid, name, n, pay,
                                 TRUE, TRUE, TRUE)
    /\ WithinBounds

NextDesk ==
    \/ add_movie
    \/ add_auditorium
    \/ add_show
    \/ book_ticket_desk
    \/ customer_book_ticket

SpecDesk == Init /\ [][NextDesk]_vars

---------------------------------------------------------------------------
(* The clerk's session on a schedule of two shows: bookings made, changed  *)
(* and cancelled while another show and another booking are on file.       *)

FrameBounds ==
    /\ Len(showFile') <= MaxSchedule
    /\ Len(bookFile') <= MaxBookings
    /\ MaxIdOf(showFile') <= MaxId
    /\ MaxIdOf(bookFile') <= MaxId

add_show_frame ==
    /\ \E mid \in MovieIdInputs, aid \in AddShowAuds, time \in TimeInputs,
          seats \in UpdShowSeats, bp \in PriceInputs :
           AddShow(mid, aid, Date1, time, seats, bp)
    /\ FrameBounds

book_ticket_frame ==
    /\ \E sid \in ShowIdInputs, cname \in ClerkNames, n \in SeatInputs :
           BookTicketCommon("book_ticket", sid, cname, n, <<"1">>, TRUE, TRUE, TRUE)
    /\ FrameBounds

cancel_frame ==
    \E bid \in BookingIdInputs, c \in DuelChoices, ns \in NewSeatInputs :
        CancelOrModifyCommon("cancel_or_modify_booking", bid, FALSE, <<>>, c, ns)

NextFrame ==
    \/ add_movie
    \/ add_auditorium
    \/ add_show_frame
    \/ book_ticket_frame
    \/ cancel_frame

SpecFrame == Init /\ [][NextFrame]_vars

---------------------------------------------------------------------------
(* Readings of the stores used to state the properties.                    *)

ShowRows == RowsOf(showFile)
BookRows == RowsOf(bookFile)

\* the seat count a show row holds, when it is a number
Remaining(s) == PyInt(Fld(s, 5))

RECURSIVE SumSeats(_, _)
SumSeats(rows, sid) ==
    IF Len(rows) = 0 THEN 0
    ELSE (IF Fld(rows[1], 2) = sid /\ IntOk(Fld(rows[1], 3))
          THEN PyInt(Fld(rows[1], 3)) ELSE 0) + SumSeats(Tail(rows), sid)

\* seats held by the bookings that reference show sid
BookedSeats(sid) == SumSeats(bookFile, sid)

---------------------------------------------------------------------------
(* C2.  In every reachable state every stored showtime whose seat count is *)
(* a number has remainingSeats >= 0.                                       *)
C2_RemainingNeverNegative ==
    \A s \in ShowRows : IntOk(Fld(s, 5)) => Remaining(s) >= 0

---------------------------------------------------------------------------
\* the slot a show row occupies
Triple(s) == <<Fld(s, 2), Fld(s, 3), Fld(s, 4)>>

(* C4.  No two distinct showtimes share the same                           *)
(* (auditoriumId, date, time) triple.                                      *)
C4_UniqueTriple ==
    \A i, j \in 1..Len(showFile) :
        i # j => Triple(showFile[i]) # Triple(showFile[j])

\* the second half of C4, which the code keeps: an add_show whose triple is
\* on the schedule is rejected and appends nothing
C4_DuplicateCreateRejected ==
    [][(/\ last'.op = "add_show"
        /\ \E s \in ShowRows : Triple(s) = <<last'.who, last'.date, last'.time>>)
       => showFile' = showFile /\ last'.out # "Show added."]_vars

---------------------------------------------------------------------------
\* the handlers that create, modify and cancel bookings, and conservation
\* of seats in given stores
BookingOps == {"book_ticket", "cancel_or_modify_booking", "customer_cancel_or_modify"}

Conserved(shows, books, totals) ==
    \A i \in 1..Len(shows) :
        LET sid == Fld(shows[i], 0) IN
        /\ sid \in DOMAIN totals
        /\ IntOk(Fld(shows[i], 5))
        /\ Remaining(shows[i]) + SumSeats(books, sid) = totals[sid]

(* C1.  Seat conservation: a booking handler (create, modify, cancel) run  *)
(* in a state where every showtime has remainingSeats + the seats of the   *)
(* bookings referencing it = the seat total it was created with, ends in   *)
(* such a state.                                                           *)
C1_SeatConservation ==
    [][(last'.op \in BookingOps /\ Conserved(showFile, bookFile, seatTotal))
       => Conserved(showFile', bookFile', seatTotal')]_vars

---------------------------------------------------------------------------
\* one step of the clerk's booking handler, against the stores before it
C5_Step ==
    LET op == last'
        idx == FindFirst(showFile, op.key)
        n == PyInt(op.num)
        b == bookFile'[Len(bookFile')]
    IN  (/\ op.op = "book_ticket"
         /\ EnsurePositiveInt(op.num)
         /\ idx # 0
         /\ IntOk(Fld(showFile[idx], 5)))
        => IF n > Remaining(showFile[idx])
           THEN /\ op.out = "Not enough seats available."
                /\ showFile' = showFile
                /\ bookFile' = bookFile
           ELSE op.sel \in {<<"1">>, <<"2">>}
                => /\ op.out = "Booking successful."
                   /\ IntOk(Fld(showFile'[idx], 5))
                   /\ Remaining(showFile'[idx]) = Remaining(showFile[idx]) - n
                   /\ Len(bookFile') = Len(bookFile) + 1
                   /\ SubSeq(bookFile', 1, Len(bookFile)) = bookFile
                   /\ Len(b) = 5
                   /\ Fld(b, 2) = op.key
                   /\ IntOk(Fld(b, 3)) /\ PyInt(Fld(b, 3)) = n
                   /\ Fld(b, 4) = PAID

(* C5.  createBooking (the clerk's book_ticket) with a positive seat count *)
(* on a stored show: with seatCount > remainingSeats it fails and changes  *)
(* neither store; otherwise, the payment choice being a valid one, it      *)
(* succeeds, takes exactly seatCount from remainingSeats and adds exactly  *)
(* one five-field PAID booking of that show with that seatCount.           *)
C5_CapacityCheck == [][C5_Step]_vars

---------------------------------------------------------------------------
\* the cancel/modify entries, and the refusal of somebody else's booking
CancelModifyOps == {"cancel_or_modify_booking", "customer_cancel_or_modify"}

Forbidden == "You can only manage your own bookings."

\* one modify step, against the stores before it
C7_Step ==
    LET op == last'
        bidx == FindFirst(bookFile, op.key)
        sidx == IF bidx = 0 THEN 0 ELSE FindFirst(showFile, Fld(bookFile[bidx], 2))
        new == PyInt(op.num)
        old == PyInt(Fld(bookFile[bidx], 3))
        avail == Remaining(showFile[sidx])
    IN  (op.op \in CancelModifyOps /\ op.sel = <<"M">>)
        => /\ op.out # "Booking modified."
              => showFile' = showFile /\ bookFile' = bookFile
           /\ (/\ bidx # 0
               /\ op.out # Forbidden
               /\ EnsurePositiveInt(op.num)
               /\ IntOk(Fld(bookFile[bidx], 3))
               /\ sidx # 0
               /\ IntOk(Fld(showFile[sidx], 5)))
              => IF avail - (new - old) < 0
                 THEN op.out = "Not enough seats to modify."
                 ELSE /\ op.out = "Booking modified."
                      /\ IntOk(Fld(bookFile'[bidx], 3))
                      /\ PyInt(Fld(bookFile'[bidx], 3)) = new
                      /\ IntOk(Fld(showFile'[sidx], 5))
                      /\ Remaining(showFile'[sidx]) = avail - (new - old)

(* C7.  modifyBooking (choice M with a positive newSeatCount, on a stored  *)
(* booking of a stored show, both seat counts numbers, the requester       *)
(* allowed), with delta = newSeatCount - oldSeatCount: if remainingSeats - *)
(* delta would be negative it fails; otherwise the booking's seatCount     *)
(* becomes newSeatCount and remainingSeats its old value minus delta.  A   *)
(* modification that does not succeed changes neither store.               *)
C7_ModifyBooking == [][C7_Step]_vars

\* a modification has gone through
C7_Witness ==
    /\ last.op \in CancelModifyOps
    /\ last.sel = <<"M">>
    /\ last.out = "Booking modified."

---------------------------------------------------------------------------
\* a and b are the same up to the case of their letters
SameButForCase(a, b) ==
    /\ Len(a) = Len(b)
    /\ \A i \in 1..Len(a) :
          \/ a[i] = b[i]
          \/ \E k \in 1..26 : {a[i], b[i]} = {UpperCase[k], LowerCase[k]}

\* one step of the customer's cancel/modify handler, against the stores
\* before it
C8_Step ==
    LET op == last'
        bidx == FindFirst(bookFile, op.key)
    IN  (op.op = "customer_cancel_or_modify" /\ bidx # 0)
        => IF SameButForCase(Fld(bookFile[bidx], 1), op.who)
           THEN op.out # Forbidden
           ELSE /\ op.out = Forbidden
                /\ showFile' = showFile
                /\ bookFile' = bookFile

(* C8.  A customer's modify or cancel of a stored booking whose            *)
(* customerName differs from the customer's identity other than in letter  *)
(* case fails and changes neither store; an identity that differs from     *)
(* customerName only in letter case is not turned away.                    *)
C8_OwnerCheck == [][C8_Step]_vars

\* a customer has modified a booking stored under another spelling of the name
C8_Witness ==
    /\ last.op = "customer_cancel_or_modify"
    /\ last.out = "Booking modified."
    /\ \E b \in BookRows :
          /\ Fld(b, 0) = last.key
          /\ Fld(b, 1) # last.who
          /\ SameButForCase(Fld(b, 1), last.who)

---------------------------------------------------------------------------
\* op is a cancel/modify call that chose C
IsCancel(op) == op.op \in CancelModifyOps /\ op.sel = <<"C">>

\* one cancel/modify step, against the stores and the call before it
C9_Step ==
    LET op == last'
        bidx == FindFirst(bookFile, op.key)
        sidx == IF bidx = 0 THEN 0 ELSE FindFirst(showFile, Fld(bookFile[bidx], 2))
    IN  /\ (IsCancel(op) /\ bidx # 0 /\ op.out # Forbidden)
           => /\ op.out = "Booking cancelled."
              /\ FindFirst(bookFile', op.key) = 0
              /\ sidx # 0
                 => /\ IntOk(Fld(showFile'[sidx], 5))
                    /\ IntOk(Fld(showFile[sidx], 5))
                    /\ IntOk(Fld(bookFile[bidx], 3))
                    /\ Remaining(showFile'[sidx]) =
                          Remaining(showFile[sidx]) + PyInt(Fld(bookFile[bidx], 3))
        /\ (/\ IsCancel(last) /\ last.out = "Booking cancelled."
            /\ op.op \in CancelModifyOps /\ op.key = last.key)
           => /\ op.out = "Booking not found."
              /\ showFile' = showFile
              /\ bookFile' = bookFile

(* C9.  Cancelling a stored booking (the requester allowed) removes it and *)
(* gives its seats back to its show; a second cancel of the same id right  *)
(* after a successful one returns not-found and changes neither store.     *)
C9_CancelTwice == [][C9_Step]_vars

---------------------------------------------------------------------------
\* one del_show step, against the stores before it
C10_Step ==
    LET op == last'
        idx == FindFirst(showFile, op.key)
    IN  op.op = "del_show"
        => IF \E b \in BookRows : Fld(b, 2) = op.key
           THEN /\ op.out = "Has bookings; cannot delete."
                /\ showFile' = showFile
                /\ bookFile' = bookFile
           ELSE /\ bookFile' = bookFile
                /\ idx # 0 => /\ op.out = "Show removed."
                              /\ showFile' = RemoveAt(showFile, idx)
                /\ idx = 0 => showFile' = showFile

(* C10.  deleteShowtime of a show that a booking references fails and      *)
(* changes neither store; of a stored show that no booking references it   *)
(* removes that show's row and no other, and leaves the bookings alone.    *)
C10_DeleteShow == [][C10_Step]_vars

\* a delete has been refused because of a booking
C10_Witness ==
    /\ last.op = "del_show"
    /\ last.out = "Has bookings; cannot delete."
    /\ \E b \in BookRows : Fld(b, 2) = last.key
    /\ \E s \in ShowRows : Fld(s, 0) = last.key

\* a delete has removed one of two shows and kept the other
C10_RemovedOneOfTwo ==
    /\ last.op = "del_show"
    /\ last.out = "Show removed."
    /\ Len(showFile) = 1

---------------------------------------------------------------------------
(* C3.  Two concurrent createBooking calls on one showtime: once both have *)
(* returned, remainingSeats has dropped from the seat total by at least    *)
(* the seats of the bookings recorded for the showtime (no lost update).   *)
C3_NoLostUpdate ==
    (\A p \in Terminals : pc[p] = "idle")
    => \A s \in ShowRows :
          (Fld(s, 0) \in DOMAIN seatTotal /\ IntOk(Fld(s, 5)))
          => seatTotal[Fld(s, 0)] - Remaining(s) >= BookedSeats(Fld(s, 0))

---------------------------------------------------------------------------
\* one booking step under write failures
C6_Step ==
    last'.op = "book_ticket"
    => /\ (showFile' # showFile) <=> (bookFile' # bookFile)
       /\ last'.out = "Booking successful."
          => Len(bookFile') = Len(bookFile) + 1

(* C6.  createBooking is atomic with respect to write failure: a call      *)
(* changes the showtime store if and only if it changes the booking store, *)
(* and a call reported as successful has added its booking record.         *)
C6_AtomicCreate == [][C6_Step]_vars

---------------------------------------------------------------------------
\* the movie ids on file
MovieIds == {Fld(movFile[i], 0) : i \in 1..Len(movFile)}

(* C11.  After any sequence of movie and showtime operations every         *)
(* showtime references a movie id that is in the movie store.              *)
C11_NoOrphanShow == \A s \in ShowRows : Fld(s, 1) \in MovieIds

\* the first half of C11, which the code keeps: del_movie of a movie that a
\* show references is refused and leaves the movie store as it was
C11_DeleteBlocked ==
    [][(last'.op = "del_movie" /\ \E s \in ShowRows : Fld(s, 1) = last'.key)
       => /\ last'.out = "Movie has showtimes; cannot delete."
          /\ movFile' = movFile]_vars

---------------------------------------------------------------------------
\* the first fields of a store that are integers, as integers
ParsedIds(rows) ==
    {PyInt(Fld(rows[i], 0)) : i \in {k \in 1..Len(rows) : IntOk(Fld(rows[k], 0))}}

\* the largest member of a non-empty set of integers
MaxOf(S) == CHOOSE m \in S : \A x \in S : x <= m

(* C12, as stated.  nextId returns the decimal string of 1 + the maximum   *)
(* of the first fields that parse as integers, and "1" when the store is   *)
(* empty or no first field parses; it does not modify the store.           *)
C12_AsStated ==
    [][last'.op = "next_id"
       => /\ last'.key = IF ParsedIds(bookFile) = {} THEN <<"1">>
                         ELSE PyStr(1 + MaxOf(ParsedIds(bookFile)))
          /\ UNCHANGED files]_vars

(* C12, amended.  nextId returns the decimal string of 1 + the maximum of  *)
(* 0 and the first fields that parse as integers (so "1" when the store is *)
(* empty, when no first field parses and when none is positive); it does   *)
(* not modify the store.                                                   *)
C12_NextId ==
    [][last'.op = "next_id"
       => /\ last'.key = PyStr(1 + MaxOf(ParsedIds(bookFile) \cup {0}))
          /\ UNCHANGED files]_vars

\* ids 2, 5 and "x" on file, in an order that does not end with 5: "6"
C12_Witness ==
    /\ last.op = "next_id"
    /\ last.key = <<"6">>
    /\ Len(bookFile) = 3
    /\ Fld(bookFile[1], 0) = <<"5">>
    /\ Fld(bookFile[2], 0) = <<"x">>
    /\ Fld(bookFile[3], 0) = <<"2">>

---------------------------------------------------------------------------
\* the step is a booking that went through; the id it was given
Booked == last'.op = "book_ticket" /\ last'.out = "Booking successful."

NewBookingId == Fld(bookFile'[Len(bookFile')], 0)

(* C13, as stated.  An id freed by deletion is not reused unless the store *)
(* was emptied: a booking made right after the cancellation of booking k,  *)
(* with other bookings still on file, does not get id k.                   *)
C13_AsStated ==
    [][(/\ IsCancel(last) /\ last.out = "Booking cancelled."
        /\ bookFile # <<>>
        /\ Booked)
       => NewBookingId # last.key]_vars

(* C13, amended.  A newly allocated id is larger than every id on file     *)
(* when it is allocated (1 on an empty store): it is the id of no record   *)
(* on file, and it is the id of a deleted record only if that id was       *)
(* larger than every id left on file.                                      *)
C13_AboveAllOnFile ==
    [][Booked
       => /\ IntOk(NewBookingId)
          /\ \A k \in ParsedIds(bookFile) : PyInt(NewBookingId) > k
          /\ bookFile = <<>> => NewBookingId = <<"1">>
          /\ \A i \in 1..Len(bookFile) : Fld(bookFile[i], 0) # NewBookingId]_vars

\* booking 1 was cancelled and a booking made after it: bookings 2 and 3
\* are on file, 3 the one just made
C13_Witness ==
    /\ last.op = "book_ticket"
    /\ last.out = "Booking successful."
    /\ Len(bookFile) = 2
    /\ Fld(bookFile[1], 0) = <<"2">>
    /\ Fld(bookFile[2], 0) = <<"3">>

---------------------------------------------------------------------------
(* C14.  Under concurrent clerks no two bookings on file have the same id. *)
C14_DistinctBookingIds ==
    \A i, j \in 1..Len(bookFile) :
        i # j => Fld(bookFile[i], 0) # Fld(bookFile[j], 0)

---------------------------------------------------------------------------
\* a whole number below 0, as the prices of the model are written
Negative(s) == IntOk(s) /\ PyInt(s) < 0

\* the step is an add_show that appended a show; the row it appended
ShowAdded == last'.op = "add_show" /\ last'.out = "Show added."

NewShow == showFile'[Len(showFile')]

(* C15.  Every showtime createShowtime appends has remainingSeats =        *)
(* seatTotal > 0 and basePrice >= 0: a request with seatTotal <= 0 or      *)
(* basePrice < 0 appends nothing.                                          *)
C15_CreateValidates ==
    [][ShowAdded
       => /\ Len(showFile') = Len(showFile) + 1
          /\ IntOk(Fld(NewShow, 5))
          /\ Remaining(NewShow) = PyInt(last'.num)
          /\ Remaining(NewShow) > 0
          /\ ~Negative(Fld(NewShow, 6))]_vars

---------------------------------------------------------------------------
\* movie mid is on file and active
ActiveMovie(mid) ==
    \E i \in 1..Len(movFile) :
        Fld(movFile[i], 0) = mid /\ Fld(movFile[i], 5) = ACTIVE

(* C16.  updateShowtime of an id that is not on file fails with not-found; *)
(* an update whose movieId is not that of an active movie, or whose        *)
(* auditoriumId is not on file, is rejected and leaves the showtime        *)
(* unchanged.                                                              *)
C16_UpdateValidates ==
    [][last'.op = "upd_show"
       => IF FindFirst(showFile, last'.key) = 0
          THEN last'.out = "Show not found." /\ showFile' = showFile
          ELSE (~ActiveMovie(last'.sel) \/ last'.who \notin AudIds)
               => last'.out # "Show updated." /\ showFile' = showFile]_vars

---------------------------------------------------------------------------
(* C17.  In every reachable state, after updateShowtime too, a showtime's  *)
(* remainingSeats does not exceed the seat total it was created with.      *)
C17_NeverAboveTotal ==
    \A s \in ShowRows :
        (Fld(s, 0) \in DOMAIN seatTotal /\ IntOk(Fld(s, 5)))
        => Remaining(s) <= seatTotal[Fld(s, 0)]

---------------------------------------------------------------------------
(* C18.  On the clerk's and on the customer's entry, a booking whose       *)
(* customer name is empty or holds a comma is rejected and stores nothing, *)
(* and the record a booking stores has exactly five fields.                *)
CreateOps == {"book_ticket", "customer_book_ticket"}

C18_NameValidated ==
    [][last'.op \in CreateOps
       => /\ ~IsNonemptyNoComma(last'.who)
             => last'.out # "Booking successful." /\ bookFile' = bookFile
          /\ last'.out = "Booking successful."
             => Len(bookFile'[Len(bookFile')]) = 5]_vars

---------------------------------------------------------------------------
(* C19.  When the booking named is on file, the caller may manage it and   *)
(* its show id is the id of no show on file: a cancellation takes that     *)
(* booking, and no other, off the booking file and leaves the show file as *)
(* it was; a modification does not succeed and leaves both files as they   *)
(* were.                                                                   *)
C19_Step ==
    LET bidx == FindFirst(bookFile, last'.key)
    IN  (/\ last'.op \in CancelModifyOps
         /\ bidx # 0
         /\ last'.out # Forbidden
         /\ FindFirst(showFile, Fld(bookFile[bidx], 2)) = 0)
        => /\ last'.sel = <<"C">>
              => /\ last'.out = "Booking cancelled."
                 /\ Len(bookFile') = Len(bookFile) - 1
                 /\ \A k \in 1..Len(bookFile') :
                        bookFile'[k] = bookFile[IF k < bidx THEN k ELSE k + 1]
                 /\ showFile' = showFile
           /\ last'.sel = <<"M">>
              => /\ last'.out # "Booking modified."
                 /\ bookFile' = bookFile
                 /\ showFile' = showFile

C19_OrphanBooking == [][C19_Step]_vars

\* a cancellation has emptied the booking file and the seats of the booking
\* have not gone back to any show: its show id matched none
C19_Witness ==
    /\ last.op \in CancelModifyOps
    /\ last.sel = <<"C">>
    /\ last.out = "Booking cancelled."
    /\ bookFile = <<>>
    /\ \E s \in ShowRows :
           /\ Fld(s, 0) \in DOMAIN seatTotal
           /\ IntOk(Fld(s, 5))
           /\ Remaining(s) < seatTotal[Fld(s, 0)]

\* a modification has found no show for the booking
C19_ModifyWitness ==
    /\ last.op \in CancelModifyOps
    /\ last.sel = <<"M">>
    /\ last.out = "Related show not found."
    /\ bookFile # <<>>

---------------------------------------------------------------------------
(* C20.  Every row the loader hands to the handlers has as many fields as  *)
(* the header of its file has columns: six for a movie, two for an         *)
(* auditorium, seven for a show, five for a booking.                       *)
C20_LoadedRowsHaveStoreWidth ==
    /\ \A r \in RowsOf(movFile) : Len(r) = 6
    /\ \A r \in RowsOf(audFile) : Len(r) = 2
    /\ \A r \in ShowRows : Len(r) = 7
    /\ \A r \in BookRows : Len(r) = 5

---------------------------------------------------------------------------
(* C21.  Two concurrent cancel/modify calls: once both have returned,      *)
(* every show's remainingSeats plus the seats of the bookings left on file *)
(* for it equals the seat total the show was created with.                 *)
C21_NoDoubleCount ==
    (\A p \in Terminals : pc[p] = "idle")
    => \A s \in ShowRows :
          (Fld(s, 0) \in DOMAIN seatTotal /\ IntOk(Fld(s, 5)))
          => Remaining(s) + BookedSeats(Fld(s, 0)) = seatTotal[Fld(s, 0)]

---------------------------------------------------------------------------
\* the answers the payment section takes for a payment
Paid == {<<"1">>, <<"2">>}

\* the step is a booking call that got as far as the payment prompt
AskedToPay == last'.op = "book_ticket" /\ last'.sel # <<>>

(* C22.  A booking call that reaches the payment prompt and is answered    *)
(* with anything but 1 or 2 ends with "Invalid payment option. Booking     *)
(* cancelled." and leaves the booking file and the show file as they were; *)
(* a booking call that changes either file was answered 1 or 2.            *)
C22_PaymentFirst ==
    [][/\ (AskedToPay /\ last'.sel \notin Paid)
          => /\ last'.out = "Invalid payment option. Booking cancelled."
             /\ bookFile' = bookFile
             /\ showFile' = showFile
       /\ (last'.op = "book_ticket" /\ (bookFile' # bookFile \/ showFile' # showFile))
          => last'.sel \in Paid]_vars

\* the payment was refused with a show on file that still has all its seats
C22_Witness ==
    /\ last.op = "book_ticket"
    /\ last.out = "Invalid payment option. Booking cancelled."
    /\ last.sel \notin Paid
    /\ bookFile = <<>>
    /\ \E s \in ShowRows :
           /\ Fld(s, 0) = last.key
           /\ Remaining(s) = seatTotal[Fld(s, 0)]

(* Between two terminals: the show file and the booking file are written   *)
(* only by a call that is past its payment prompt.                         *)
C22_WritesAfterPayment ==
    [][\A p \in Terminals :
          (pc[p] \in {"idle", "pay"} /\ pc'[p] # pc[p])
          => bookFile' = bookFile /\ showFile' = showFile]_vars

---------------------------------------------------------------------------
\* the step is a booking whose receipt file was refused
ReceiptFailed ==
    last'.op = "book_ticket" /\ last'.out = "OSError in generate_receipt"

(* C23.  A booking whose receipt cannot be written stays booked: the       *)
(* booking file holds the rows it held and, after them, the new booking,   *)
(* and the show has the seats of the booking fewer than before.            *)
C23_ReceiptFailureKeepsBooking ==
    [][ReceiptFailed
       => LET idx == FindFirst(showFile, last'.key)
              new == bookFile'[Len(bookFile')]
          IN  /\ Len(bookFile') = Len(bookFile) + 1
              /\ SubSeq(bookFile', 1, Len(bookFile)) = bookFile
              /\ Fld(new, 0) = NextIdFrom(bookFile)
              /\ new[Len(new)] = PAID
              /\ Len(showFile') = Len(showFile)
              /\ Remaining(showFile'[idx])
                 = Remaining(showFile[idx]) - PyInt(last'.num)]_vars

\* the receipt of a booking was refused; the booking is on file and its
\* seats are off the show
C23_Witness ==
    /\ last.op = "book_ticket"
    /\ last.out = "OSError in generate_receipt"
    /\ bookFile # <<>>
    /\ \E s \in ShowRows :
           /\ Fld(s, 0) = last.key
           /\ Remaining(s) = seatTotal[Fld(s, 0)] - PyInt(last.num)

---------------------------------------------------------------------------
(* C24.  In every state of a sequential session every booking on file has, *)
(* as its show id, the id of a show on file.                               *)
C24_NoOrphanBooking ==
    \A b \in BookRows : \E s \in ShowRows : Fld(s, 0) = Fld(b, 2)

---------------------------------------------------------------------------
\* show rows a and b differ in the seat count at most
SameButSeats(a, b) ==
    /\ Len(a) = Len(b)
    /\ \A j \in 1..Len(a) : j # 6 => a[j] = b[j]

\* the show file after the step is the show file before it, but for the
\* seat count of the show with id sid
ShowFrame(sid) ==
    /\ Len(showFile') = Len(showFile)
    /\ \A i \in 1..Len(showFile) :
           IF Fld(showFile[i], 0) = sid
           THEN SameButSeats(showFile'[i], showFile[i])
           ELSE showFile'[i] = showFile[i]

\* the booking file after the step is the booking file before it, but for
\* row bidx, which is changed or gone
BookFrame(bidx) ==
    \/ bookFile' = bookFile
    \/ /\ Len(bookFile') = Len(bookFile)
       /\ \A k \in 1..Len(bookFile) : k # bidx => bookFile'[k] = bookFile[k]
    \/ /\ Len(bookFile') = Len(bookFile) - 1
       /\ \A k \in 1..Len(bookFile') :
              bookFile'[k] = bookFile[IF k < bidx THEN k ELSE k + 1]

(* C25.  A booking made on show S leaves the bookings on file as they were *)
(* and in their order, the new one after them; a cancellation or a change  *)
(* of a booking of show S leaves every other booking as it was and in its  *)
(* order; either leaves every show but S as it was and every field of S    *)
(* but the seat count as it was.                                           *)
C25_Step ==
    /\ last'.op = "book_ticket"
       => /\ ShowFrame(last'.key)
          /\ Len(bookFile') \in {Len(bookFile), Len(bookFile) + 1}
          /\ SubSeq(bookFile', 1, Len(bookFile)) = bookFile
    /\ last'.op \in CancelModifyOps
       => LET bidx == FindFirst(bookFile, last'.key)
          IN  IF bidx = 0
              THEN bookFile' = bookFile /\ showFile' = showFile
              ELSE ShowFrame(Fld(bookFile[bidx], 2)) /\ BookFrame(bidx)

C25_FrameOfBookingOps == [][C25_Step]_vars

\* a booking was cancelled with two shows on file, one of which has lost
\* seats to the booking that is still on file
C25_Witness ==
    /\ last.op \in CancelModifyOps
    /\ last.out = "Booking cancelled."
    /\ Len(showFile) = 2
    /\ Len(bookFile) = 1
    /\ \E s \in ShowRows :
           /\ Fld(s, 0) # Fld(bookFile[1], 2)
           /\ Remaining(s) = seatTotal[Fld(s, 0)]
    /\ \E s \in ShowRows :
           /\ Fld(s, 0) = Fld(bookFile[1], 2)
           /\ Remaining(s) < seatTotal[Fld(s, 0)]

=============================================================================
